---- MODULE Spec2Model ----
(***************************************************************************)
(* Model-preset resolution of autogluon.tabular:                           *)
(*   tabular/src/autogluon/tabular/trainer/model_presets/presets.py        *)
(*                                                                         *)
(* get_preset_models expands a hyperparameter mapping into an ordered list *)
(* of named models: merge of the ag_args layers (clean_model_cfg),         *)
(* validity filter (is_model_cfg_valid), priority ordering, and name       *)
(* allocation (model_factory).  get_preset_models_softclass is the         *)
(* soft-classification entry point in front of it.                         *)
(*                                                                         *)
(* Encoding of the Python values:                                          *)
(*   - a dict is a function whose domain is its set of (string) keys;      *)
(*   - an ordered mapping whose iteration order matters (the               *)
(*     hyperparameters) is a sequence of [key, val] pairs, unique keys;    *)
(*   - a value whose Python type the code tests (isinstance) carries the   *)
(*     type: [t |-> "dict" | "str" | "list", v |-> ...];                   *)
(*   - None in a string slot is PyNone; an argument that is None or a dict *)
(*     is << >> (None) or << d >>;                                         *)
(*   - integer dict keys (the stack levels) are written in decimal.        *)
(***************************************************************************)
EXTENDS Integers, Sequences, FiniteSets, TLC

VARIABLES
    entry,                    \* which entry point was called
    pc,                       \* position in the call
    args,                     \* the arguments of get_preset_models
    env,                      \* the collaborators' answers: registry defaults, version gate
    softclass_hyperparameters,\* the caller's argument of get_preset_models_softclass
    hp_level,                 \* l.110-111: the selected, filtered level mapping
    next_type,                \* l.114: index of the next model type in model_type_list
    model_type,               \* l.114: the loop variable model_type
    model_cfgs_to_process,    \* l.118-120: variants of model_type still to process
    default_priorities,       \* l.101-105
    invalid_name_set,         \* l.97-99, l.157
    model_cfg_priority_dict,  \* l.112
    model_cfg_priority_list,  \* l.139
    next_model,               \* l.145: index of the next config of model_cfg_priority_list
    models,                   \* l.143
    model_args_fit,           \* l.144
    returned,                 \* what a direct call of clean_model_cfg returned
    error                     \* the exception that ended the call, or none

vars == <<entry, pc, args, env, softclass_hyperparameters, hp_level, next_type,
          model_type, model_cfgs_to_process, default_priorities, invalid_name_set,
          model_cfg_priority_dict, model_cfg_priority_list, next_model, models,
          model_args_fit, returned, error>>

----------------------------------------------------------------------------
(* Python values *)

PyNone == "<None>"

NoneArg == << >>

Some(d) == << d >>

IsNone(x) == x = NoneArg

EmptyDict == [k \in {} |-> PyNone]

PyDict(d) == [t |-> "dict", v |-> d]

PyStr(s) == [t |-> "str", v |-> s]

PyList(s) == [t |-> "list", v |-> s]

\* dict.get(k, dflt)
Get(d, k, dflt) == IF k \in DOMAIN d THEN d[k] ELSE dflt

\* d.update(e), as a new dict: e's keys win, d's other keys stay
Update(d, e) == [k \in (DOMAIN d) \cup (DOMAIN e) |-> IF k \in DOMAIN e THEN e[k] ELSE d[k]]

\* d with d[k] = x
Put(d, k, x) == [j \in (DOMAIN d) \cup {k} |-> IF j = k THEN x ELSE d[j]]

\* d.pop(k, None), as a new dict
Pop(d, k) == [j \in (DOMAIN d) \ {k} |-> d[j]]

KeySet(m) == {m[i].key : i \in 1..Len(m)}

\* m[k] of an ordered mapping
Lookup(m, k) == m[CHOOSE i \in 1..Len(m) : m[i].key = k].val

\* s.startswith(p)
StartsWith(s, p) == Len(s) >= Len(p) /\ SubSeq(s, 1, Len(p)) = p

\* bool(x) of a string-or-None slot: None and "" are falsy
TruthyStr(x) == x \notin {PyNone, ""}

----------------------------------------------------------------------------
(* Constants of presets.py and autogluon.core.constants *)

DEFAULT_CUSTOM_MODEL_PRIORITY == 0

AG_ARGS == "ag_args"

AG_ARGS_ENSEMBLE == "ag_args_ensemble"

AG_ARGS_FIT == "ag_args_fit"

BINARY == "binary"

MULTICLASS == "multiclass"

REGRESSION == "regression"

SOFTCLASS == "softclass"

QUANTILE == "quantile"

----------------------------------------------------------------------------
(* The model registry (ag_model_registry) and the model classes.           *)

RegistryKeys == {"GBM", "RF", "KNN"}

\* ag_model_registry.key_to_cls_map()
key_to_cls_map == [k \in RegistryKeys |-> k \o "Model"]

RegisteredClasses == {key_to_cls_map[k] : k \in RegistryKeys}

\* a custom AbstractModel subclass that is not registered and sets no ag_name
CustomClasses == {"CustomModel"}

Classes == RegisteredClasses \cup CustomClasses

\* inspect.isclass(x)
IsClass(x) == x \in Classes

\* cls.ag_name: the display name of a registered class is its key
ag_name(cls) == IF cls \in RegisteredClasses
                THEN CHOOSE k \in RegistryKeys : key_to_cls_map[k] = cls
                ELSE PyNone

\* ag_model_registry.priority_map(problem_type), by registry key (l.102-105)
priority_map(problem_type) == [k \in RegistryKeys |->
    CASE k = "KNN" -> 100
      [] k = "GBM" -> 90
      [] k = "RF"  -> 80]

\* cls._get_default_ag_args(): None or a dict
_get_default_ag_args(cls) == env.default_ag_args[cls]

\* cls._get_default_ag_args_ensemble(problem_type): None or a dict
_get_default_ag_args_ensemble(cls, problem_type) == env.default_ag_args_ensemble[cls]

\* get_deprecated_lightgbm_large_hyperparameters()
DeprecatedLargeHyperparameters ==
    [learning_rate |-> "0.03",
     ag_args |-> [name_suffix |-> "Large", priority |-> 0,
                  hyperparameter_tune_kwargs |-> PyNone]]

\* ModelFilter.filter_models(models, included_model_types, excluded_model_types)
filter_models(m, included, excluded) ==
    LET keep(k) == /\ (IsNone(included) \/ k \in included[1])
                   /\ (IsNone(excluded) \/ k \notin excluded[1])
    IN  SelectSeq(m, LAMBDA e : keep(e.key))

----------------------------------------------------------------------------
(* Exceptions *)

NoError == [kind |-> PyNone]

\* an exception: its type, its message, and the model type and value the message quotes
Raise(kind, msg, mtype, value) == [kind |-> kind, msg |-> msg, mtype |-> mtype, value |-> value]

----------------------------------------------------------------------------
(* _verify_model_cfg, l.219-244: the dict of a variant, or an exception.   *)
(* env.version_ge_1_3_0 is version.parse(__version__) >= "1.3.0".          *)

_verify_model_cfg(model_cfg, mtype) ==
    IF model_cfg.t = "dict"
    THEN [ok |-> TRUE, cfg |-> model_cfg.v]
    ELSE IF model_cfg.t = "str" /\ model_cfg.v = "GBMLarge" /\ ~env.version_ge_1_3_0
         THEN [ok |-> TRUE, cfg |-> DeprecatedLargeHyperparameters]
         ELSE [ok |-> FALSE,
               err |-> Raise("AssertionError", "Invalid model hyperparameters, expecting dict",
                             mtype, model_cfg)]

(* clean_model_cfg, l.168-216, a stage at a time.  ag_args,                *)
(* ag_args_ensemble and ag_args_fit are None or a dict.                    *)

\* l.171-172
WithAgArgs(c) == IF AG_ARGS \in DOMAIN c THEN c ELSE Put(c, AG_ARGS, EmptyDict)

\* l.173-174
WithModelType(c, mtype) ==
    IF "model_type" \in DOMAIN c[AG_ARGS]
    THEN c
    ELSE Put(c, AG_ARGS, Put(c[AG_ARGS], "model_type", mtype))

\* l.177-182: the class of a registry key, a class as it is
ResolveClass(mt) == IF IsClass(mt) THEN mt ELSE key_to_cls_map[mt]

\* l.190
WithClass(c) == Put(c, AG_ARGS, Put(c[AG_ARGS], "model_type", ResolveClass(c[AG_ARGS]["model_type"])))

\* l.191-193
ModelTypeReal(c) ==
    IF IsClass(c[AG_ARGS]["model_type"])
    THEN c[AG_ARGS]["model_type"]
    ELSE key_to_cls_map[c[AG_ARGS]["model_type"]]

\* l.196-197 with the two dicts exchanged: the caller's ag_args win
MergeAgArgsGlobalWins(c, ag_args) ==
    IF ~IsNone(ag_args) THEN Put(c, AG_ARGS, Update(c[AG_ARGS], ag_args[1])) ELSE c

\* l.195-198
MergeAgArgs(c, ag_args) ==
    IF ~IsNone(ag_args) THEN Put(c, AG_ARGS, Update(ag_args[1], c[AG_ARGS])) ELSE c

\* l.200-203
MergeAgArgsEnsemble(c, ag_args_ensemble) ==
    IF ~IsNone(ag_args_ensemble)
    THEN Put(c, AG_ARGS_ENSEMBLE, Update(ag_args_ensemble[1], Get(c, AG_ARGS_ENSEMBLE, EmptyDict)))
    ELSE c

\* l.204-209
MergeAgArgsFit(c, ag_args_fit) ==
    IF ~IsNone(ag_args_fit)
    THEN Put(c, AG_ARGS_FIT, Update(ag_args_fit[1], Get(c, AG_ARGS_FIT, EmptyDict)))
    ELSE c

\* l.210-212
MergeDefaultAgArgs(c, default_ag_args) ==
    IF ~IsNone(default_ag_args)
    THEN Put(c, AG_ARGS, Update(default_ag_args[1], c[AG_ARGS]))
    ELSE c

\* l.213-215
MergeDefaultAgArgsEnsemble(c, default_ag_args_ensemble) ==
    IF ~IsNone(default_ag_args_ensemble)
    THEN Put(c, AG_ARGS_ENSEMBLE,
             Update(default_ag_args_ensemble[1], Get(c, AG_ARGS_ENSEMBLE, EmptyDict)))
    ELSE c

\* l.191-215: the layers merged into a config whose model type is a class
MergeLayers(c, ag_args, ag_args_ensemble, ag_args_fit, problem_type) ==
    MergeDefaultAgArgsEnsemble(
        MergeDefaultAgArgs(
            MergeAgArgsFit(
                MergeAgArgsEnsemble(MergeAgArgs(c, ag_args), ag_args_ensemble),
                ag_args_fit),
            _get_default_ag_args(ModelTypeReal(c))),
        _get_default_ag_args_ensemble(ModelTypeReal(c), problem_type))

\* l.175-216 on a config that has ag_args and a model_type
CleanTyped(c, ag_args, ag_args_ensemble, ag_args_fit, problem_type) ==
    IF c[AG_ARGS]["model_type"] = PyNone
    THEN [ok |-> FALSE,
          err |-> Raise("AssertionError", "model_type was not specified for model",
                        PyNone, PyDict(c))]
    ELSE IF ~IsClass(c[AG_ARGS]["model_type"])
            /\ c[AG_ARGS]["model_type"] \notin DOMAIN key_to_cls_map
    THEN [ok |-> FALSE,
          err |-> Raise("AssertionError", "Unknown model type specified in hyperparameters",
                        c[AG_ARGS]["model_type"], PyStr(c[AG_ARGS]["model_type"]))]
    ELSE [ok |-> TRUE,
          cfg |-> MergeLayers(WithClass(c), ag_args, ag_args_ensemble, ag_args_fit,
                              problem_type)]

\* l.170-216 on what _verify_model_cfg returned
CleanVerified(verified, mtype, ag_args, ag_args_ensemble, ag_args_fit, problem_type) ==
    IF ~verified.ok
    THEN verified
    ELSE CleanTyped(WithModelType(WithAgArgs(verified.cfg), mtype),
                    ag_args, ag_args_ensemble, ag_args_fit, problem_type)

\* the merged config of a variant, or an exception
clean_model_cfg(model_cfg, mtype, ag_args, ag_args_ensemble, ag_args_fit, problem_type) ==
    CleanVerified(_verify_model_cfg(model_cfg, mtype), mtype, ag_args, ag_args_ensemble,
                  ag_args_fit, problem_type)

(* is_model_cfg_valid, l.248-265 (the unknown-key warning of l.250-252     *)
(* changes nothing).                                                       *)
\* l.259-262 with the two level tests exchanged
AgArgsValidLevelsSwapped(a, level, problem_type) ==
    IF Get(a, "model_type", PyNone) = PyNone THEN FALSE
    ELSE IF TruthyStr(Get(a, "hyperparameter_tune_kwargs", PyNone))
            /\ Get(a, "disable_in_hpo", FALSE) THEN FALSE
    ELSE IF ~Get(a, "valid_stacker", TRUE) /\ level = 1 THEN FALSE
    ELSE IF ~Get(a, "valid_base", TRUE) /\ level > 1 THEN FALSE
    ELSE IF problem_type # PyNone
            /\ problem_type \notin Get(a, "problem_types", {problem_type}) THEN FALSE
    ELSE TRUE

\* l.257-258 left out
AgArgsValidNoHpo(a, level, problem_type) ==
    IF Get(a, "model_type", PyNone) = PyNone THEN FALSE
    ELSE IF ~Get(a, "valid_stacker", TRUE) /\ level > 1 THEN FALSE
    ELSE IF ~Get(a, "valid_base", TRUE) /\ level = 1 THEN FALSE
    ELSE IF problem_type # PyNone
            /\ problem_type \notin Get(a, "problem_types", {problem_type}) THEN FALSE
    ELSE TRUE

\* l.255-264 on the ag_args of the config
AgArgsValid(a, level, problem_type) ==
    IF Get(a, "model_type", PyNone) = PyNone THEN FALSE
    ELSE IF TruthyStr(Get(a, "hyperparameter_tune_kwargs", PyNone))
            /\ Get(a, "disable_in_hpo", FALSE) THEN FALSE
    ELSE IF ~Get(a, "valid_stacker", TRUE) /\ level > 1 THEN FALSE
    ELSE IF ~Get(a, "valid_base", TRUE) /\ level = 1 THEN FALSE
    ELSE IF problem_type # PyNone
            /\ problem_type \notin Get(a, "problem_types", {problem_type}) THEN FALSE
    ELSE TRUE

is_model_cfg_valid(model_cfg, level, problem_type) ==
    IF AG_ARGS \notin DOMAIN model_cfg
    THEN FALSE
    ELSE AgArgsValid(model_cfg[AG_ARGS], level, problem_type)

----------------------------------------------------------------------------
(* model_factory, l.268-342 *)

\* l.299-301 with the loop an if: the name is checked once
UniqueNameCheckedOnce(name, name_orig, num_increment, name_suffix, used) ==
    IF name \in used
    THEN name_orig \o "_" \o ToString(num_increment) \o name_suffix
    ELSE name

\* l.300-301 exchanged: the counter is incremented before it is used
RECURSIVE UniqueNameIncrementFirst(_, _, _, _, _)
UniqueNameIncrementFirst(name, name_orig, num_increment, name_suffix, used) ==
    IF name \in used
    THEN UniqueNameIncrementFirst(name_orig \o "_" \o ToString(num_increment + 1) \o name_suffix,
                                  name_orig, num_increment + 1, name_suffix, used)
    ELSE name

\* l.299-301: the while loop of the plain name
RECURSIVE UniqueName(_, _, _, _, _)
UniqueName(name, name_orig, num_increment, name_suffix, used) ==
    IF name \in used
    THEN UniqueName(name_orig \o "_" \o ToString(num_increment) \o name_suffix,
                    name_orig, num_increment + 1, name_suffix, used)
    ELSE name

\* f"{name}{name_bag_suffix}_L{level}{name_suffix}", l.305 and l.308
StackerName(name, name_bag_suffix, level, name_suffix) ==
    name \o name_bag_suffix \o "_L" \o ToString(level) \o name_suffix

\* l.306 with the base name checked as well
RECURSIVE UniqueStackerNameCheckingBase(_, _, _, _, _, _, _)
UniqueStackerNameCheckingBase(name, name_orig, num_increment, name_bag_suffix, level, name_suffix, used) ==
    IF StackerName(name, name_bag_suffix, level, name_suffix) \in used \/ name \in used
    THEN UniqueStackerNameCheckingBase(name_orig \o "_" \o ToString(num_increment),
                                       name_orig, num_increment + 1, name_bag_suffix, level,
                                       name_suffix, used)
    ELSE [name |-> name,
          name_stacker |-> StackerName(name, name_bag_suffix, level, name_suffix)]

\* l.306-309: the while loop of the stacker name; name and name_stacker together
RECURSIVE UniqueStackerName(_, _, _, _, _, _, _)
UniqueStackerName(name, name_orig, num_increment, name_bag_suffix, level, name_suffix, used) ==
    IF StackerName(name, name_bag_suffix, level, name_suffix) \in used
    THEN UniqueStackerName(name_orig \o "_" \o ToString(num_increment),
                           name_orig, num_increment + 1, name_bag_suffix, level,
                           name_suffix, used)
    ELSE [name |-> name,
          name_stacker |-> StackerName(name, name_bag_suffix, level, name_suffix)]

\* l.281-283
FactoryClass(model) ==
    IF IsClass(model[AG_ARGS]["model_type"])
    THEN model[AG_ARGS]["model_type"]
    ELSE key_to_cls_map[model[AG_ARGS]["model_type"]]

\* l.286-288
AgName(cls) == IF ag_name(cls) = PyNone THEN cls ELSE ag_name(cls)

\* l.284-292: the name before disambiguation
NameOrig(model) ==
    IF Get(model[AG_ARGS], "name", PyNone) # PyNone
    THEN model[AG_ARGS]["name"]
    ELSE Get(model[AG_ARGS], "name_prefix", "")
         \o Get(model[AG_ARGS], "name_main", AgName(FactoryClass(model)))
         \o Get(model[AG_ARGS], "name_suffix", "")

\* l.297-309 from name_orig and the suffix of l.295-296
NamesFrom(name_orig, sfx, name_bag_suffix, ensemble_kwargs, used, level) ==
    IF IsNone(ensemble_kwargs)
    THEN [name |-> UniqueName(name_orig \o sfx, name_orig, 2, sfx, used),
          name_stacker |-> PyNone]
    ELSE UniqueStackerName(name_orig, name_orig, 2, name_bag_suffix, level, sfx, used)

\* l.293-309: [name, name_stacker]; name_stacker is None without ensemble_kwargs
FactoryNames(model, name_suffix, ensemble_kwargs, used, level) ==
    NamesFrom(NameOrig(model),
              IF name_suffix = PyNone THEN "" ELSE name_suffix,
              Get(model[AG_ARGS], "name_bag_suffix", "_BAG"),
              ensemble_kwargs, used, level)

ag_args_ensemble_prefix == "ag.ens."

\* key.split(ag_args_ensemble_prefix, 1)[-1] of a key that starts with the prefix
KeySuffix(key) == SubSeq(key, Len(ag_args_ensemble_prefix) + 1, Len(key))

\* l.319-322 on p, the config without its ag_args and ag_args_ensemble
KeptParams(p) == [k \in {j \in DOMAIN p : ~StartsWith(j, ag_args_ensemble_prefix)} |-> p[k]]

RoutedParams(p) ==
    [k \in {KeySuffix(j) : j \in {i \in DOMAIN p : StartsWith(i, ag_args_ensemble_prefix)}} |->
        p[CHOOSE j \in DOMAIN p : StartsWith(j, ag_args_ensemble_prefix) /\ KeySuffix(j) = k]]

\* l.310-322: the hyperparameters of the model and of the ensemble around it
ModelParams(model) == KeptParams(Pop(Pop(model, AG_ARGS), AG_ARGS_ENSEMBLE))

ExtraEnsembleHyperparameters(model) ==
    Update(Get(model, AG_ARGS_ENSEMBLE, EmptyDict),
           RoutedParams(Pop(Pop(model, AG_ARGS), AG_ARGS_ENSEMBLE)))

\* l.333-337: ensemble_kwargs_model["hyperparameters"]
EnsembleHyperparameters(given, extra) ==
    Update(IF IsNone(given) THEN EmptyDict ELSE given[1], extra)

(* l.324-342: the constructed model: type(self), self.name, and what the   *)
(* constructor was given.                                                  *)
Construct(model, names, problem_type, ensemble_type, ensemble_kwargs) ==
    IF IsNone(ensemble_kwargs)
    THEN [cls |-> FactoryClass(model),
          name |-> names.name,
          hyperparameters |-> ModelParams(model),
          model_base |-> PyNone,
          model_base_kwargs |-> NoneArg,
          normalize_pred_probas |-> FALSE]
    ELSE [cls |-> ensemble_type,
          name |-> names.name_stacker,
          hyperparameters |->
              EnsembleHyperparameters(Get(ensemble_kwargs[1], "hyperparameters", Some(EmptyDict)),
                                      ExtraEnsembleHyperparameters(model)),
          model_base |-> FactoryClass(model),
          model_base_kwargs |-> Some([name |-> names.name,
                                      problem_type |-> problem_type,
                                      hyperparameters |-> ModelParams(model)]),
          normalize_pred_probas |-> FALSE]

model_factory(model, problem_type, name_suffix, ensemble_type, ensemble_kwargs, used, level) ==
    Construct(model, FactoryNames(model, name_suffix, ensemble_kwargs, used, level),
              problem_type, ensemble_type, ensemble_kwargs)

----------------------------------------------------------------------------
(* get_preset_models, l.70-165, one operator per stage.  The call starts   *)
(* from the hyperparameters that process_hyperparameters and the optional  *)
(* hyperparameter_preprocess_func (l.90-94) hand on.                       *)

ProblemTypes == {BINARY, MULTICLASS, REGRESSION, SOFTCLASS, QUANTILE}

ensemble_type == "StackerEnsembleModel"

\* l.107-110: hyperparameters[level_key]
SelectLevel(hyperparameters, level) ==
    LET level_key == IF ToString(level) \in KeySet(hyperparameters)
                     THEN ToString(level) ELSE "default"
        hp == IF level_key \notin KeySet(hyperparameters) /\ level_key = "default"
              THEN << [key |-> "default", val |-> hyperparameters] >>
              ELSE hyperparameters
    IN  Lookup(hp, level_key)

\* l.95-111: the exception, or the locals the loops start from
EnterCall(a) ==
    IF a.problem_type \notin ProblemTypes
    THEN [ok |-> FALSE, err |-> Raise("NotImplementedError", "", PyNone, PyStr(a.problem_type))]
    ELSE [ok |-> TRUE,
          invalid_name_set |-> IF IsNone(a.invalid_model_names)
                               THEN {} ELSE a.invalid_model_names[1],
          default_priorities |-> IF IsNone(a.default_priorities)
                                 THEN priority_map(a.problem_type)
                                 ELSE a.default_priorities[1],
          hp_level |-> filter_models(SelectLevel(a.hyperparameters, a.level),
                                     a.included_model_types, a.excluded_model_types)]

\* l.116-117 left out: a bare value gives no variants
ModelsOfTypeListOnly(models_of_type) ==
    IF models_of_type.t = "list" THEN models_of_type.v ELSE << >>

\* l.115-120: the variants of one model type, a bare value as a list of one
ModelsOfType(models_of_type) ==
    IF models_of_type.t = "list" THEN models_of_type.v ELSE << models_of_type >>

\* l.137: model_cfg_priority_dict[model_priority].append(model_cfg)
AppendAt(dict, priority, x) ==
    Put(dict, priority, Append(Get(dict, priority, << >>), x))

\* l.130: the config with its priority
WithPriority(c, mtype, priorities) ==
    Put(c, AG_ARGS,
        Put(c[AG_ARGS], "priority",
            Get(c[AG_ARGS], "priority", Get(priorities, mtype, DEFAULT_CUSTOM_MODEL_PRIORITY))))

\* l.134-135
WithoutEmptyFit(c) ==
    IF AG_ARGS_FIT \in DOMAIN c /\ c[AG_ARGS_FIT] = EmptyDict THEN Pop(c, AG_ARGS_FIT) ELSE c

(* l.131-137 on the config with its priority.  An entry of the dict is     *)
(* [cfg, src]: the config, and src = <<i, j>>, the place of the variant in *)
(* hp_level (type i, variant j), which the code does not keep.             *)
FilterCfg(dict, c, src, a) ==
    IF is_model_cfg_valid(c, a.level, a.problem_type)
    THEN AppendAt(dict, c[AG_ARGS]["priority"], [cfg |-> WithoutEmptyFit(c), src |-> src])
    ELSE dict

\* l.130-137 on what clean_model_cfg returned
ResolveCleaned(dict, cleaned, mtype, src, a, priorities) ==
    IF ~cleaned.ok
    THEN cleaned
    ELSE [ok |-> TRUE, dict |-> FilterCfg(dict, WithPriority(cleaned.cfg, mtype, priorities), src, a)]

\* the validity filter (l.133) run on the variant as given, before clean_model_cfg
ResolveCfgFilterFirst(dict, model_cfg, mtype, src, a, priorities) ==
    IF model_cfg.t = "dict" /\ AG_ARGS \in DOMAIN model_cfg.v
       /\ ~AgArgsValid(Put(model_cfg.v[AG_ARGS], "model_type", mtype), a.level, a.problem_type)
    THEN [ok |-> TRUE, dict |-> dict]
    ELSE ResolveCleaned(dict,
                        clean_model_cfg(model_cfg, mtype, a.ag_args, a.ag_args_ensemble,
                                        a.ag_args_fit, a.problem_type),
                        mtype, src, a, priorities)

(* l.122-137 for one variant: the exception, or model_cfg_priority_dict     *)
(* with the variant appended when it is valid.                             *)
ResolveCfg(dict, model_cfg, mtype, src, a, priorities) ==
    ResolveCleaned(dict,
                   clean_model_cfg(model_cfg, mtype, a.ag_args, a.ag_args_ensemble,
                                   a.ag_args_fit, a.problem_type),
                   mtype, src, a, priorities)

\* sorted(model_cfg_priority_dict.keys(), reverse=True)
RECURSIVE SortedReverse(_)
SortedReverse(keys) ==
    IF keys = {} THEN << >>
    ELSE LET top == CHOOSE k \in keys : \A j \in keys : j <= k
         IN  << top >> \o SortedReverse(keys \ {top})

RECURSIVE Concat(_, _)
Concat(dict, keys) ==
    IF keys = << >> THEN << >> ELSE dict[Head(keys)] \o Concat(dict, Tail(keys))

\* sorted(...) without reverse=True
RECURSIVE SortedForward(_)
SortedForward(keys) ==
    IF keys = {} THEN << >>
    ELSE LET low == CHOOSE k \in keys : \A j \in keys : k <= j
         IN  << low >> \o SortedForward(keys \ {low})

PriorityListAscending(dict) == Concat(dict, SortedForward(DOMAIN dict))

\* l.139
PriorityList(dict) == Concat(dict, SortedReverse(DOMAIN dict))

(* l.157-164 once the model is constructed.  A built model is kept with    *)
(* src, the place in hp_level of the variant it was built from.            *)
Built(b, model_cfg, src, model) ==
    [models |-> Append(b.models, model @@ [src |-> src]),
     invalid_name_set |-> b.invalid_name_set \cup {model.name},
     model_args_fit |->
         IF "hyperparameter_tune_kwargs" \in DOMAIN model_cfg[AG_ARGS]
         THEN Put(b.model_args_fit, model.name,
                  [hyperparameter_tune_kwargs |->
                       model_cfg[AG_ARGS]["hyperparameter_tune_kwargs"]])
         ELSE b.model_args_fit,
     cfg |-> IF AG_ARGS_ENSEMBLE \in DOMAIN model_cfg /\ model_cfg[AG_ARGS_ENSEMBLE] = EmptyDict
             THEN Pop(model_cfg, AG_ARGS_ENSEMBLE) ELSE model_cfg]

(* l.146-164 for one config: [models, invalid_name_set, model_args_fit,     *)
(* cfg], cfg being the config as the loop leaves it.                       *)
BuildModel(b, cand, a) ==
    Built(b, cand.cfg, cand.src,
          model_factory(cand.cfg, a.problem_type, a.name_suffix, ensemble_type,
                        a.ensemble_kwargs, b.invalid_name_set, a.level))

----------------------------------------------------------------------------
(* get_preset_models_softclass, l.346-379 *)

model_types_standard == {"GBM", "NN_TORCH", "CAT", "ENS_WEIGHTED"}

rf_newparams == [criterion |-> "squared_error", ag_args |-> [name_suffix |-> "MSE"]]

\* l.361: [j for n, j in enumerate(rf_params) if j not in rf_params[(n + 1):]]
RECURSIVE RemoveDuplicates(_)
RemoveDuplicates(rf_params) ==
    IF rf_params = << >> THEN << >>
    ELSE IF \E m \in 2..Len(rf_params) : rf_params[m] = Head(rf_params)
         THEN RemoveDuplicates(Tail(rf_params))
         ELSE << Head(rf_params) >> \o RemoveDuplicates(Tail(rf_params))

\* l.357-362 without the removal of duplicates of l.361
RewriteRFKeepingDuplicates(rf_params) ==
    CASE rf_params.t = "list" ->
           IF \E i \in 1..Len(rf_params.v) : rf_params.v[i].t # "dict"
           THEN [ok |-> FALSE,
                 err |-> Raise("AttributeError", "object has no attribute 'update'",
                               "RF", rf_params)]
           ELSE [ok |-> TRUE,
                 val |-> PyList([i \in 1..Len(rf_params.v) |->
                                    PyDict(Update(rf_params.v[i].v, rf_newparams))])]
      [] rf_params.t = "dict" ->
           IF DOMAIN rf_params.v = {}
           THEN [ok |-> TRUE, val |-> PyList(<< >>)]
           ELSE [ok |-> FALSE, err |-> Raise("KeyError", "0", "RF", rf_params)]
      [] rf_params.t = "str" ->
           IF rf_params.v = ""
           THEN [ok |-> TRUE, val |-> PyList(<< >>)]
           ELSE [ok |-> FALSE,
                 err |-> Raise("AttributeError", "object has no attribute 'update'",
                               "RF", rf_params)]

(* l.357-362 on hyperparameters["RF"]: the new list, or the exception that *)
(* indexing or .update raises when the value is no list of dicts.          *)
RewriteRF(rf_params) ==
    CASE rf_params.t = "list" ->
           IF \E i \in 1..Len(rf_params.v) : rf_params.v[i].t # "dict"
           THEN [ok |-> FALSE,
                 err |-> Raise("AttributeError", "object has no attribute 'update'",
                               "RF", rf_params)]
           ELSE [ok |-> TRUE,
                 val |-> PyList(RemoveDuplicates(
                            [i \in 1..Len(rf_params.v) |->
                                PyDict(Update(rf_params.v[i].v, rf_newparams))]))]
      [] rf_params.t = "dict" ->
           \* len(dict) is its number of keys, dict[0] a KeyError
           IF DOMAIN rf_params.v = {}
           THEN [ok |-> TRUE, val |-> PyList(<< >>)]
           ELSE [ok |-> FALSE, err |-> Raise("KeyError", "0", "RF", rf_params)]
      [] rf_params.t = "str" ->
           \* a string indexes to its characters
           IF rf_params.v = ""
           THEN [ok |-> TRUE, val |-> PyList(<< >>)]
           ELSE [ok |-> FALSE,
                 err |-> Raise("AttributeError", "object has no attribute 'update'",
                               "RF", rf_params)]

\* l.349-362: hyperparameters_standard, or the exception
SoftclassHyperparameters(hyperparameters) ==
    LET standard == SelectSeq(hyperparameters, LAMBDA e : e.key \in model_types_standard)
    IN  IF "RF" \in KeySet(hyperparameters)
        THEN LET rf == RewriteRF(Lookup(hyperparameters, "RF"))
             IN  IF rf.ok
                 THEN [ok |-> TRUE, val |-> Append(standard, [key |-> "RF", val |-> rf.val])]
                 ELSE rf
        ELSE [ok |-> TRUE, val |-> standard]

----------------------------------------------------------------------------
(* The calls, step by step *)

Locals(hp, types, mtype, cfgs, prio, used, dict, list, nm, ms, fit) ==
    /\ hp_level' = hp
    /\ next_type' = types
    /\ model_type' = mtype
    /\ model_cfgs_to_process' = cfgs
    /\ default_priorities' = prio
    /\ invalid_name_set' = used
    /\ model_cfg_priority_dict' = dict
    /\ model_cfg_priority_list' = list
    /\ next_model' = nm
    /\ models' = ms
    /\ model_args_fit' = fit

\* what the steps of get_preset_models leave alone
Inputs == <<entry, args, env, softclass_hyperparameters, returned>>

RaiseIn(e) ==
    /\ pc' = "raised"
    /\ error' = e

\* l.346-369: the rewrite, then the call of get_preset_models
SoftclassCall ==
    /\ pc = "softclass"
    /\ LET hs == SoftclassHyperparameters(softclass_hyperparameters)
       IN  IF hs.ok
           THEN /\ args' = [args EXCEPT !.hyperparameters = hs.val,
                                        !.problem_type = SOFTCLASS]
                /\ pc' = "start"
                /\ error' = error
           ELSE /\ RaiseIn(hs.err)
                /\ args' = args
    /\ UNCHANGED <<entry, env, softclass_hyperparameters, returned, hp_level, next_type,
                   model_type, model_cfgs_to_process, default_priorities, invalid_name_set,
                   model_cfg_priority_dict, model_cfg_priority_list, next_model, models,
                   model_args_fit>>

\* l.95-113
Enter ==
    /\ pc = "start"
    /\ LET e == EnterCall(args)
       IN  IF e.ok
           THEN /\ Locals(e.hp_level, 1, PyNone, << >>, e.default_priorities,
                          e.invalid_name_set, EmptyDict, << >>, 1, << >>, EmptyDict)
                /\ pc' = "loop"
                /\ error' = error
           ELSE /\ RaiseIn(e.err)
                /\ UNCHANGED <<hp_level, next_type, model_type, model_cfgs_to_process,
                               default_priorities, invalid_name_set, model_cfg_priority_dict,
                               model_cfg_priority_list, next_model, models, model_args_fit>>
    /\ UNCHANGED Inputs

\* l.114-120: the next model type and its variants
ForModelType ==
    /\ pc = "loop"
    /\ model_cfgs_to_process = << >>
    /\ next_type <= Len(hp_level)
    /\ model_type' = hp_level[next_type].key
    /\ model_cfgs_to_process' = ModelsOfType(hp_level[next_type].val)
    /\ next_type' = next_type + 1
    /\ UNCHANGED <<pc, error, hp_level, default_priorities, invalid_name_set,
                   model_cfg_priority_dict, model_cfg_priority_list, next_model, models,
                   model_args_fit>>
    /\ UNCHANGED Inputs

\* the place in hp_level of the variant at the head of model_cfgs_to_process
CurrentSrc ==
    << next_type - 1,
       Len(ModelsOfType(hp_level[next_type - 1].val)) - Len(model_cfgs_to_process) + 1 >>

\* l.121-137: the next variant of the model type
ForModelCfg ==
    /\ pc = "loop"
    /\ model_cfgs_to_process # << >>
    /\ LET r == ResolveCfg(model_cfg_priority_dict, Head(model_cfgs_to_process), model_type,
                           CurrentSrc, args, default_priorities)
       IN  IF r.ok
           THEN /\ model_cfg_priority_dict' = r.dict
                /\ model_cfgs_to_process' = Tail(model_cfgs_to_process)
                /\ UNCHANGED <<pc, error>>
           ELSE /\ RaiseIn(r.err)
                /\ UNCHANGED <<model_cfg_priority_dict, model_cfgs_to_process>>
    /\ UNCHANGED <<hp_level, next_type, model_type, default_priorities, invalid_name_set,
                   model_cfg_priority_list, next_model, models, model_args_fit>>
    /\ UNCHANGED Inputs

\* l.139-144
SortByPriority ==
    /\ pc = "loop"
    /\ model_cfgs_to_process = << >>
    /\ next_type > Len(hp_level)
    /\ model_cfg_priority_list' = PriorityList(model_cfg_priority_dict)
    /\ pc' = "build"
    /\ UNCHANGED <<error, hp_level, next_type, model_type, model_cfgs_to_process,
                   default_priorities, invalid_name_set, model_cfg_priority_dict, next_model,
                   models, model_args_fit>>
    /\ UNCHANGED Inputs

\* l.145-164: the next config of model_cfg_priority_list
ForModel ==
    /\ pc = "build"
    /\ next_model <= Len(model_cfg_priority_list)
    /\ LET b == BuildModel([models |-> models, invalid_name_set |-> invalid_name_set,
                            model_args_fit |-> model_args_fit],
                           model_cfg_priority_list[next_model], args)
       IN  /\ models' = b.models
           /\ invalid_name_set' = b.invalid_name_set
           /\ model_args_fit' = b.model_args_fit
           /\ model_cfg_priority_list' =
                  [model_cfg_priority_list EXCEPT ![next_model].cfg = b.cfg]
    /\ next_model' = next_model + 1
    /\ UNCHANGED <<pc, error, hp_level, next_type, model_type, model_cfgs_to_process,
                   default_priorities, model_cfg_priority_dict>>
    /\ UNCHANGED Inputs

\* l.165, and back in get_preset_models_softclass l.370-379
Return ==
    /\ pc = "build"
    /\ next_model > Len(model_cfg_priority_list)
    /\ pc' = IF entry = "get_preset_models_softclass" THEN "softclass_returned" ELSE "done"
    /\ UNCHANGED <<error, hp_level, next_type, model_type, model_cfgs_to_process,
                   default_priorities, invalid_name_set, model_cfg_priority_dict,
                   model_cfg_priority_list, next_model, models, model_args_fit>>
    /\ UNCHANGED Inputs

\* l.370-379
SoftclassReturn ==
    /\ pc = "softclass_returned"
    /\ IF Len(models) = 0
       THEN /\ RaiseIn(Raise("ValueError",
                             "At least one of the following model-types must be present",
                             PyNone, PyStr("")))
            /\ models' = models
       ELSE /\ models' = [i \in 1..Len(models) |->
                             [models[i] EXCEPT !.normalize_pred_probas = TRUE]]
            /\ pc' = "done"
            /\ error' = error
    /\ UNCHANGED <<hp_level, next_type, model_type, model_cfgs_to_process,
                   default_priorities, invalid_name_set, model_cfg_priority_dict,
                   model_cfg_priority_list, next_model, model_args_fit>>
    /\ UNCHANGED Inputs

(* clean_model_cfg, l.168-216, called on its own: model_cfg is the head of  *)
(* model_cfgs_to_process, model_type the type key, the other arguments     *)
(* those of args.                                                          *)
CleanModelCfgCall ==
    /\ pc = "clean_model_cfg"
    /\ LET r == clean_model_cfg(Head(model_cfgs_to_process), model_type, args.ag_args,
                                args.ag_args_ensemble, args.ag_args_fit, args.problem_type)
       IN  IF r.ok
           THEN /\ returned' = Some(r.cfg)
                /\ pc' = "done"
                /\ error' = error
           ELSE /\ RaiseIn(r.err)
                /\ returned' = returned
    /\ UNCHANGED <<entry, args, env, softclass_hyperparameters, hp_level, next_type,
                   model_type, model_cfgs_to_process, default_priorities, invalid_name_set,
                   model_cfg_priority_dict, model_cfg_priority_list, next_model, models,
                   model_args_fit>>

----------------------------------------------------------------------------
(* get_preset_models as one function of its arguments: the stages above,   *)
(* applied in the order of the loops.                                      *)

RECURSIVE ResolveVariants(_, _, _, _, _, _, _)
ResolveVariants(dict, cfgs, mtype, i, j, a, priorities) ==
    IF cfgs = << >> THEN [ok |-> TRUE, dict |-> dict]
    ELSE LET r == ResolveCfg(dict, Head(cfgs), mtype, <<i, j>>, a, priorities)
         IN  IF r.ok
             THEN ResolveVariants(r.dict, Tail(cfgs), mtype, i, j + 1, a, priorities)
             ELSE r

RECURSIVE ResolveTypes(_, _, _, _, _)
ResolveTypes(dict, hp, i, a, priorities) ==
    IF i > Len(hp) THEN [ok |-> TRUE, dict |-> dict]
    ELSE LET r == ResolveVariants(dict, ModelsOfType(hp[i].val), hp[i].key, i, 1, a, priorities)
         IN  IF r.ok THEN ResolveTypes(r.dict, hp, i + 1, a, priorities) ELSE r

RECURSIVE BuildModels(_, _, _, _)
BuildModels(b, list, i, a) ==
    IF i > Len(list) THEN b
    ELSE LET n == BuildModel(b, list[i], a)
         IN  BuildModels([models |-> n.models, invalid_name_set |-> n.invalid_name_set,
                          model_args_fit |-> n.model_args_fit], list, i + 1, a)

\* the exception, or (models, model_args_fit)
get_preset_models(a) ==
    LET e == EnterCall(a)
    IN  IF ~e.ok THEN [error |-> e.err, models |-> << >>, model_args_fit |-> EmptyDict]
        ELSE LET r == ResolveTypes(EmptyDict, e.hp_level, 1, a, e.default_priorities)
             IN  IF ~r.ok
                 THEN [error |-> r.err, models |-> << >>, model_args_fit |-> EmptyDict]
                 ELSE LET b == BuildModels([models |-> << >>,
                                            invalid_name_set |-> e.invalid_name_set,
                                            model_args_fit |-> EmptyDict],
                                           PriorityList(r.dict), 1, a)
                      IN  [error |-> NoError, models |-> b.models,
                           model_args_fit |-> b.model_args_fit]

----------------------------------------------------------------------------
(* The inputs the calls are checked on *)

\* the most variants a call of get_preset_models is given by the ordering inputs
MaxCfgs == 3

Levels == {1, 2}

SeqsUpTo(S, n) == UNION {[1..m -> S] : m \in 0..n}

\* the value of a model type: a list, or a bare variant
TypeValue(variants, bare) ==
    IF bare /\ Len(variants) = 1 THEN variants[1] ELSE PyList(variants)

(* Every level mapping that gives at most n variants of the pool to at     *)
(* most two model types, the keys of a pair of keyPairs in its order: the  *)
(* first type gets the first cut variants (a list, or bare if it is one),  *)
(* the second the rest when there is a rest.                               *)
LevelMappings(pool, keyPairs, n) ==
    UNION { { << [key |-> kp[1], val |-> TypeValue(SubSeq(q, 1, cut), b1)] >>
              \o (IF cut = Len(q) THEN << >>
                  ELSE << [key |-> kp[2],
                           val |-> TypeValue(SubSeq(q, cut + 1, Len(q)), b2)] >>)
              : cut \in 0..Len(q), kp \in keyPairs, b1 \in BOOLEAN, b2 \in BOOLEAN }
            : q \in SeqsUpTo(pool, n) }

\* hyperparameters keyed by stack level: "default" and level 2
ByLevel(default, second) ==
    << [key |-> "default", val |-> default], [key |-> ToString(2), val |-> second] >>

BaseArgs ==
    [hyperparameters |-> << >>, level |-> 1, problem_type |-> BINARY,
     ensemble_kwargs |-> NoneArg, ag_args |-> NoneArg, ag_args_ensemble |-> NoneArg,
     ag_args_fit |-> NoneArg, name_suffix |-> PyNone, default_priorities |-> NoneArg,
     invalid_model_names |-> NoneArg, included_model_types |-> NoneArg,
     excluded_model_types |-> NoneArg]

BaseEnv ==
    [default_ag_args |-> [c \in Classes |-> Some(EmptyDict)],
     default_ag_args_ensemble |-> [c \in Classes |-> Some(EmptyDict)],
     version_ge_1_3_0 |-> TRUE]

InitLocals ==
    /\ hp_level = << >>
    /\ next_type = 1
    /\ model_type = PyNone
    /\ model_cfgs_to_process = << >>
    /\ default_priorities = EmptyDict
    /\ invalid_name_set = {}
    /\ model_cfg_priority_dict = EmptyDict
    /\ model_cfg_priority_list = << >>
    /\ next_model = 1
    /\ models = << >>
    /\ model_args_fit = EmptyDict
    /\ returned = NoneArg
    /\ error = NoError

\* a call of get_preset_models
InitCall(argSet, envSet) ==
    /\ entry = "get_preset_models"
    /\ pc = "start"
    /\ args \in argSet
    /\ env \in envSet
    /\ softclass_hyperparameters = << >>
    /\ InitLocals

V(ag_args) == PyDict([ag_args |-> ag_args])

\* the steps of get_preset_models
Next ==
    \/ Enter
    \/ ForModelType
    \/ ForModelCfg
    \/ SortByPriority
    \/ ForModel
    \/ Return

----------------------------------------------------------------------------
(* Ordering.  Variants with and without a priority of their own, one that  *)
(* the level-1 filter drops, and the legacy string; model types GBM and    *)
(* RF, whose registry priorities differ, in both orders; flat and keyed by *)
(* level; before and after the version that rejects the legacy string.     *)

OrderPool ==
    { PyDict(EmptyDict),
      V([priority |-> 90]),
      V([priority |-> 80]),
      V([valid_base |-> FALSE]),
      PyStr("GBMLarge") }

OrderKeys == { <<"GBM", "RF">>, <<"RF", "GBM">> }

OrderHyperparameters ==
    LevelMappings(OrderPool, OrderKeys, MaxCfgs)
    \cup { ByLevel(d, m) : d \in LevelMappings(OrderPool, {<<"GBM", "RF">>}, 1),
                           m \in LevelMappings(OrderPool, {<<"RF", "GBM">>}, 1) }

OrderArgs ==
    { [BaseArgs EXCEPT !.hyperparameters = h, !.level = l]
        : h \in OrderHyperparameters, l \in Levels }

OrderEnvs == { [BaseEnv EXCEPT !.version_ge_1_3_0 = g] : g \in BOOLEAN }

Init == InitCall(OrderArgs, OrderEnvs)

Spec == Init /\ [][Next]_vars

----------------------------------------------------------------------------
(* What the claims speak of *)

\* the places <<i, j>> of the variants of a level mapping: type i, variant j
Places(hp) ==
    UNION { { <<i, j>> : j \in 1..(IF hp[i].val.t = "list" THEN Len(hp[i].val.v) ELSE 1) }
            : i \in 1..Len(hp) }

\* the variant at a place, as given
VariantAt(hp, place) ==
    IF hp[place[1]].val.t = "list" THEN hp[place[1]].val.v[place[2]] ELSE hp[place[1]].val

\* discovery order: the order of the types, then the order within the type's list
Before(s1, s2) == s1[1] < s2[1] \/ (s1[1] = s2[1] /\ s1[2] < s2[2])

\* the places of the returned models
Returned == { models[i].src : i \in 1..Len(models) }

\* the dict of a variant: its own, or the one the legacy string stands for
VariantDict(v) == IF v.t = "dict" THEN v.v ELSE DeprecatedLargeHyperparameters

\* the variant's own ag_args
OwnAgArgs(v) == Get(VariantDict(v), AG_ARGS, EmptyDict)

\* an argument that is None or a dict, as a dict
OrEmpty(d) == IF IsNone(d) THEN EmptyDict ELSE d[1]

\* the model type a variant names: its own ag_args' model_type, else its type key
NamedType(key, v) == Get(OwnAgArgs(v), "model_type", key)

\* the variant names no model type, or a string that is no registry key
BadType(key, v) ==
    \/ NamedType(key, v) = PyNone
    \/ NamedType(key, v) \notin Classes \cup RegistryKeys

\* the class of a model type that is a class or a registry key
ClassOf(mt) == IF mt \in Classes THEN mt ELSE CHOOSE c \in RegisteredClasses : c = key_to_cls_map[mt]

(* The value of ag_args key k of a variant under a type key, layer by      *)
(* layer: the variant's own ag_args, else the caller's ag_args, else the  *)
(* default ag_args of the model class.                                     *)
HasLayered(key, v, k) ==
    \/ k \in DOMAIN OwnAgArgs(v)
    \/ k \in DOMAIN OrEmpty(args.ag_args)
    \/ k \in DOMAIN OrEmpty(env.default_ag_args[ClassOf(NamedType(key, v))])

Layered(key, v, k, dflt) ==
    IF k \in DOMAIN OwnAgArgs(v) THEN OwnAgArgs(v)[k]
    ELSE IF k \in DOMAIN OrEmpty(args.ag_args) THEN OrEmpty(args.ag_args)[k]
    ELSE Get(OrEmpty(env.default_ag_args[ClassOf(NamedType(key, v))]), k, dflt)

\* the same at a place of hp_level
At(place, k, dflt) == Layered(hp_level[place[1]].key, VariantAt(hp_level, place), k, dflt)

HasAt(place, k) == HasLayered(hp_level[place[1]].key, VariantAt(hp_level, place), k)

\* the tests of the validity filter, one by one, on the layered ag_args
HpoConflict(place) ==
    /\ TruthyStr(At(place, "hyperparameter_tune_kwargs", PyNone))
    /\ At(place, "disable_in_hpo", FALSE)

StackerOk(place) == At(place, "valid_stacker", TRUE) \/ args.level <= 1

BaseOk(place) == At(place, "valid_base", TRUE) \/ args.level # 1

ProblemTypeOk(place) == args.problem_type \in At(place, "problem_types", {args.problem_type})

\* the step-by-step call returns what get_preset_models computes as a function
StepsAgree ==
    /\ pc = "done" /\ entry = "get_preset_models" =>
          /\ get_preset_models(args).error = NoError
          /\ get_preset_models(args).models = models
          /\ get_preset_models(args).model_args_fit = model_args_fit
    /\ (pc = "raised" /\ entry = "get_preset_models") => get_preset_models(args).error = error

----------------------------------------------------------------------------
(* C1: when every candidate resolves, get_preset_models returns the models *)
(* in non-increasing order of resolved priority, and models of equal       *)
(* priority in discovery order (type keys in the order of the level's      *)
(* mapping, variants in the order of the type's list).                     *)

\* the priority the config of the i-th returned model was resolved to
PriorityOf(i) == model_cfg_priority_list[i].cfg[AG_ARGS]["priority"]

(* the priority a variant resolves to: the priority of its layered ag_args, *)
(* else the default priority of its type key, else 0                       *)
ExpectedPriority(place) ==
    IF HasAt(place, "priority")
    THEN At(place, "priority", 0)
    ELSE Get(IF IsNone(args.default_priorities)
             THEN priority_map(args.problem_type) ELSE args.default_priorities[1],
             hp_level[place[1]].key, 0)

C1_PriorityOrder ==
    pc = "done" =>
        /\ Len(models) = Len(model_cfg_priority_list)
        /\ \A i \in 1..Len(models) :
              /\ models[i].src = model_cfg_priority_list[i].src
              /\ models[i].src \in Places(hp_level)
              /\ PriorityOf(i) = ExpectedPriority(models[i].src)
        /\ \A i, j \in 1..Len(models) : i # j => models[i].src # models[j].src
        /\ \A i, j \in 1..Len(models) :
              i < j => /\ PriorityOf(i) >= PriorityOf(j)
                       /\ PriorityOf(i) = PriorityOf(j) => Before(models[i].src, models[j].src)

\* three models: two of equal priority, and one that was discovered first but comes last
C1_Witness ==
    /\ pc = "done"
    /\ Len(models) = 3
    /\ \E i, j \in 1..3 : i < j /\ PriorityOf(i) = PriorityOf(j)
    /\ \E i, j \in 1..3 : i < j /\ PriorityOf(i) > PriorityOf(j)
                          /\ Before(models[j].src, models[i].src)

----------------------------------------------------------------------------
(* C6: a bare variant value for a model type is equivalent to the list of  *)
(* that one value: same models, names, order and auxiliary fit arguments,  *)
(* or the same error.                                                      *)

\* a level mapping with every bare value replaced by the list of it
Listed(hp) ==
    [i \in 1..Len(hp) |->
        [key |-> hp[i].key,
         val |-> IF hp[i].val.t = "list" THEN hp[i].val ELSE PyList(<< hp[i].val >>)]]

LevelKeys == {"default"} \cup {ToString(l) : l \in Levels}

ListedHyperparameters(h) ==
    IF h # << >> /\ KeySet(h) \subseteq LevelKeys
    THEN [i \in 1..Len(h) |-> [key |-> h[i].key, val |-> Listed(h[i].val)]]
    ELSE Listed(h)

ListedCall == get_preset_models([args EXCEPT !.hyperparameters = ListedHyperparameters(@)])

C6_BareIsListOfOne ==
    pc \in {"done", "raised"} =>
        /\ ListedCall.error = error
        /\ ListedCall.models = models
        /\ ListedCall.model_args_fit = model_args_fit

\* a call that was given a bare variant and returned a model built from it
C6_Witness ==
    /\ pc = "done"
    /\ \E i \in 1..Len(models) : hp_level[models[i].src[1]].val.t # "list"
    /\ ListedHyperparameters(args.hyperparameters) # args.hyperparameters

----------------------------------------------------------------------------
(* The validity filter.  Variants that fail one test of the filter each,   *)
(* one that sets hyperparameter_tune_kwargs to None beside disable_in_hpo, *)
(* and one that restricts the problem types; the types GBM and KNN, KNN    *)
(* disabled under tuning by its default ag_args; tuning requested by the   *)
(* caller's ag_args or not; every level up to 3 and every problem type,    *)
(* and one that is not supported.                                          *)

\* the most variants a call is given by the validity inputs
MaxValidCfgs == 2

ValidPool ==
    { PyDict(EmptyDict),
      V([valid_base |-> FALSE]),
      V([valid_stacker |-> FALSE]),
      V([hyperparameter_tune_kwargs |-> "auto", disable_in_hpo |-> TRUE]),
      V([hyperparameter_tune_kwargs |-> PyNone, disable_in_hpo |-> TRUE]),
      V([problem_types |-> {BINARY, REGRESSION}]) }

ValidArgs ==
    { [BaseArgs EXCEPT !.hyperparameters = h, !.level = l, !.problem_type = t, !.ag_args = g]
        : h \in LevelMappings(ValidPool, {<<"GBM", "KNN">>, <<"KNN", "GBM">>}, MaxValidCfgs),
          l \in 1..3,
          t \in ProblemTypes \cup {"survival"},
          g \in {NoneArg, Some([hyperparameter_tune_kwargs |-> "auto"])} }

ValidEnvs ==
    { [BaseEnv EXCEPT !.default_ag_args["KNNModel"] = Some([disable_in_hpo |-> TRUE])] }

InitValid == InitCall(ValidArgs, ValidEnvs)

SpecValid == InitValid /\ [][Next]_vars

----------------------------------------------------------------------------
(* C4: an otherwise valid variant with valid_base=False is not returned at *)
(* level 1 and is returned at level 2; one with valid_stacker=False is not *)
(* returned at a level above 1 and is returned at level 1.  It is dropped  *)
(* without an error, and the other variants are still returned.            *)

C4_LevelFilter ==
    /\ pc = "done" =>
          \A place \in Places(hp_level) :
              /\ (~At(place, "valid_base", TRUE) /\ ~HpoConflict(place)
                      /\ StackerOk(place) /\ ProblemTypeOk(place))
                 => /\ args.level = 1 => place \notin Returned
                    /\ args.level = 2 => place \in Returned
              /\ (~At(place, "valid_stacker", TRUE) /\ ~HpoConflict(place)
                      /\ BaseOk(place) /\ ProblemTypeOk(place))
                 => /\ args.level > 1 => place \notin Returned
                    /\ args.level = 1 => place \in Returned
              /\ (~HpoConflict(place) /\ StackerOk(place) /\ BaseOk(place)
                      /\ ProblemTypeOk(place))
                 => place \in Returned
    \* no variant of these inputs raises: only the unsupported problem type does
    /\ pc = "raised" => args.problem_type \notin ProblemTypes

\* at level 1: a valid_base=False variant dropped, a valid_stacker=False variant returned
C4_Witness ==
    /\ pc = "done"
    /\ args.level = 1
    /\ \E p1, p2 \in Places(hp_level) :
          /\ ~At(p1, "valid_base", TRUE) /\ p1 \notin Returned
          /\ ~At(p2, "valid_stacker", TRUE) /\ p2 \in Returned

----------------------------------------------------------------------------
(* C5, as amended: a variant whose resolved hyperparameter_tune_kwargs is  *)
(* truthy (not None, not empty) and whose disable_in_hpo is True is always *)
(* excluded: is_model_cfg_valid returns False for it and get_preset_models *)
(* never returns a model for it, at every level and problem type.          *)

\* the config clean_model_cfg and l.130 give the variant at a place
CleanedAt(place) ==
    WithPriority(clean_model_cfg(VariantAt(hp_level, place), hp_level[place[1]].key,
                                 args.ag_args, args.ag_args_ensemble, args.ag_args_fit,
                                 args.problem_type).cfg,
                 hp_level[place[1]].key, default_priorities)

C5_HpoConflictExcluded ==
    \A place \in Places(hp_level) :
        HpoConflict(place) =>
            /\ place \notin Returned
            /\ ~is_model_cfg_valid(CleanedAt(place), args.level, args.problem_type)

\* a returning call that dropped such a variant and returned another
C5_Witness ==
    /\ pc = "done"
    /\ Len(models) > 0
    /\ \E place \in Places(hp_level) : HpoConflict(place)

(* C5 as stated: hyperparameter_tune_kwargs counts as set when the key is  *)
(* present in the resolved ag_args.                                        *)
C5_Original ==
    \A place \in Places(hp_level) :
        (HasAt(place, "hyperparameter_tune_kwargs") /\ At(place, "disable_in_hpo", FALSE)) =>
            /\ place \notin Returned
            /\ ~is_model_cfg_valid(CleanedAt(place), args.level, args.problem_type)

----------------------------------------------------------------------------
(* Model types that cannot be resolved.  Variants that name no model type, *)
(* or the unregistered key XT by their own ag_args, some of them with      *)
(* valid_base=False; the type keys GBM and XT, XT excluded by the caller   *)
(* or not; a custom class as model type.                                  *)

\* the most variants a call is given by the inputs with unresolvable types
MaxErrCfgs == 2

ErrPool ==
    { PyDict(EmptyDict),
      V([valid_base |-> FALSE]),
      V([model_type |-> PyNone, valid_base |-> FALSE]),
      V([model_type |-> "XT", valid_base |-> FALSE]),
      V([model_type |-> "CustomModel"]),
      V([model_type |-> "RF"]) }

ErrArgs ==
    { [BaseArgs EXCEPT !.hyperparameters = h, !.level = l, !.excluded_model_types = x]
        : h \in LevelMappings(ErrPool, {<<"GBM", "XT">>, <<"XT", "GBM">>}, MaxErrCfgs),
          l \in Levels,
          x \in {NoneArg, Some({"XT"})} }

InitErr == InitCall(ErrArgs, {BaseEnv})

SpecErr == InitErr /\ [][Next]_vars

\* the places of a type mapping whose variant names no resolvable model type
BadPlaces(hp) == { place \in Places(hp) : BadType(hp[place[1]].key, VariantAt(hp, place)) }

(* C10, as amended: a variant under a type key that survives the caller's  *)
(* include/exclude filter, whose model type resolves to nothing or is a    *)
(* string key not in the registry, makes get_preset_models fail at merge   *)
(* time with no models returned, also when the validity filter would have  *)
(* dropped it; a call returns only when every such variant merged.         *)
C10_BadTypeFails ==
    /\ BadPlaces(hp_level) # {} =>
          /\ pc \in {"loop", "raised"}
          /\ models = <<>>
          /\ pc = "raised" =>
                /\ error.kind = "AssertionError"
                /\ error.msg \in {"model_type was not specified for model",
                                  "Unknown model type specified in hyperparameters"}
    /\ pc = "raised" => /\ models = <<>>
                        /\ BadPlaces(hp_level) # {}
    /\ pc = "loop" /\ BadPlaces(hp_level) = {} => error = NoError

(* a call that raised on a variant with valid_base=False at level 1, after *)
(* an earlier variant was found valid                                      *)
C10_Witness ==
    /\ pc = "raised"
    /\ args.level = 1
    /\ \E place \in BadPlaces(hp_level) :
          ~Get(OwnAgArgs(VariantAt(hp_level, place)), "valid_base", TRUE)
    /\ DOMAIN model_cfg_priority_dict # {}

(* C10 as stated: every such variant of the call's hyperparameters makes   *)
(* the call fail, whatever its type key.                                   *)
C10_Original ==
    BadPlaces(SelectLevel(args.hyperparameters, args.level)) # {} => pc # "done"

----------------------------------------------------------------------------
(* Naming.  Variants named by default, by an explicit name that equals a   *)
(* disambiguated one, by prefix, main name and suffix, and with a bag      *)
(* suffix of their own; the types GBM and KNN; names the caller rules out  *)
(* or none; with and without a global name suffix; built directly and      *)
(* wrapped in an ensemble; at levels 1 and 2.                              *)

\* the most variants a call is given by the naming inputs
MaxNameCfgs == 2

NamePool ==
    { PyDict(EmptyDict),
      V([name |-> "GBM_2"]),
      V([name_suffix |-> "_2"]),
      V([name_prefix |-> "K", name_main |-> "N", name_suffix |-> "N"]),
      V([name_bag_suffix |-> "_B"]),
      V([name |-> "GBM", name_suffix |-> "_9"]) }

NameArgs ==
    { [BaseArgs EXCEPT !.hyperparameters = h, !.level = l, !.name_suffix = s,
                       !.invalid_model_names = i, !.ensemble_kwargs = e]
        : h \in LevelMappings(NamePool, {<<"GBM", "KNN">>}, MaxNameCfgs),
          l \in Levels,
          s \in {PyNone, "_S"},
          i \in {NoneArg, Some({"GBM", "GBM_2", "GBM_S", "GBM_BAG_L1", "GBM_BAG_L2"})},
          e \in {NoneArg, Some(EmptyDict)} }

InitNames == InitCall(NameArgs, {BaseEnv})

SpecNames == InitNames /\ [][Next]_vars

\* the names the caller rules out
InvalidNames == IF IsNone(args.invalid_model_names) THEN {} ELSE args.invalid_model_names[1]

\* the names in use when the i-th returned model is named
UsedBefore(i) == InvalidNames \cup { models[j].name : j \in 1..(i - 1) }

\* <base> of the variant at a place: the explicit name, or prefix + main name + suffix
BaseName(place) ==
    IF At(place, "name", PyNone) # PyNone
    THEN At(place, "name", PyNone)
    ELSE At(place, "name_prefix", "")
         \o At(place, "name_main",
               AgName(ClassOf(NamedType(hp_level[place[1]].key, VariantAt(hp_level, place)))))
         \o At(place, "name_suffix", "")

GlobalSuffix == IF args.name_suffix = PyNone THEN "" ELSE args.name_suffix

\* <base> with the disambiguation counter k; k = 1 is no counter
Numbered(base, k) == IF k = 1 THEN base ELSE base \o "_" \o ToString(k)

(* C2: the names of the returned models are pairwise distinct and none of  *)
(* them is one of invalid_model_names, built directly or wrapped in an     *)
(* ensemble, for explicit names, prefixes, suffixes and a global suffix.   *)
C2_NamesDistinct ==
    /\ \A i, j \in 1..Len(models) : i # j => models[i].name # models[j].name
    /\ \A i \in 1..Len(models) : models[i].name \notin InvalidNames
    /\ pc \in {"build", "done"} =>
          invalid_name_set = InvalidNames \cup { models[i].name : i \in 1..Len(models) }

\* a returning call whose second model had to avoid the name of the first
C2_Witness ==
    /\ pc = "done"
    /\ Len(models) = 2
    /\ BaseName(models[1].src) = BaseName(models[2].src)
    /\ InvalidNames # {}

(* C7: without ensemble wrapping a model is named <base><global-suffix>    *)
(* when that name is unused, else <base>_k<global-suffix> for the smallest *)
(* k >= 2 whose name is unused; two identical GBM variants without names   *)
(* and without prior used names are named GBM and GBM_2.                   *)
C7_PlainNaming ==
    (pc \in {"build", "done"} /\ IsNone(args.ensemble_kwargs)) =>
        /\ \A i \in 1..Len(models) :
              \E k \in 1..(Cardinality(UsedBefore(i)) + 1) :
                  /\ models[i].name = Numbered(BaseName(models[i].src), k) \o GlobalSuffix
                  /\ models[i].name \notin UsedBefore(i)
                  /\ \A j \in 1..(k - 1) :
                        Numbered(BaseName(models[i].src), j) \o GlobalSuffix \in UsedBefore(i)
        /\ (/\ pc = "done"
            /\ hp_level = << [key |-> "GBM", val |-> PyList(<<PyDict(EmptyDict), PyDict(EmptyDict)>>)] >>
            /\ InvalidNames = {}
            /\ args.name_suffix = PyNone)
           => << models[1].name, models[2].name >> = << "GBM", "GBM_2" >>

\* the two identical GBM variants, named
C7_Witness ==
    /\ pc = "done"
    /\ IsNone(args.ensemble_kwargs)
    /\ hp_level = << [key |-> "GBM", val |-> PyList(<<PyDict(EmptyDict), PyDict(EmptyDict)>>)] >>
    /\ InvalidNames = {}
    /\ args.name_suffix = PyNone
    /\ Len(models) = 2

(* C9: with ensemble wrapping the returned model is named                  *)
(* <base><bag-suffix>_L<level><global-suffix> when that stacker name is    *)
(* unused, else <base>_k<bag-suffix>_L<level><global-suffix> for the       *)
(* smallest k >= 2 whose stacker name is unused; the wrapped model is      *)
(* named <base>, or <base>_k with the same k, whether or not that name is  *)
(* in use.                                                                 *)
StackerNameOf(place, k) ==
    Numbered(BaseName(place), k) \o At(place, "name_bag_suffix", "_BAG")
        \o "_L" \o ToString(args.level) \o GlobalSuffix

C9_StackerNaming ==
    (pc \in {"build", "done"} /\ ~IsNone(args.ensemble_kwargs)) =>
        \A i \in 1..Len(models) :
            \E k \in 1..(Cardinality(UsedBefore(i)) + 1) :
                /\ models[i].name = StackerNameOf(models[i].src, k)
                /\ models[i].name \notin UsedBefore(i)
                /\ \A j \in 1..(k - 1) : StackerNameOf(models[i].src, j) \in UsedBefore(i)
                /\ models[i].model_base_kwargs[1].name = Numbered(BaseName(models[i].src), k)

\* a wrapped model whose base name is in use, and one whose counter is 2
C9_Witness ==
    /\ pc = "done"
    /\ ~IsNone(args.ensemble_kwargs)
    /\ \E i \in 1..Len(models) :
          /\ models[i].model_base_kwargs[1].name \in UsedBefore(i)
          /\ models[i].model_base_kwargs[1].name = BaseName(models[i].src)
    /\ \E i \in 1..Len(models) :
          /\ models[i].name = StackerNameOf(models[i].src, 2)
          /\ models[i].model_base_kwargs[1].name = Numbered(BaseName(models[i].src), 2)

----------------------------------------------------------------------------
(* The merge of the ag_args layers.  A variant without ag_args, or with    *)
(* any of the keys a, b, c and model_type in its own ag_args; the caller's *)
(* ag_args None or any of the same keys; the default ag_args of GBM None   *)
(* or any of a, b, c, those of RF another dict; the type key GBM or None.  *)
(* The three layers give different values to the same key.                 *)

Restrict(d, ks) == [k \in ks |-> d[k]]

Layers(full) == { Restrict(full, ks) : ks \in SUBSET DOMAIN full }

MergeVariants ==
    {PyDict(EmptyDict)} \cup { V(own) : own \in Layers([a |-> 5, b |-> 5, c |-> 5, model_type |-> "RF"]) }

MergeGlobals ==
    {NoneArg} \cup { Some(g) : g \in Layers([a |-> 3, b |-> 3, c |-> 4, model_type |-> "KNN"]) }

MergeEnvs ==
    { [BaseEnv EXCEPT !.default_ag_args["GBMModel"] = d,
                      !.default_ag_args["RFModel"] = Some([a |-> 9])]
        : d \in {NoneArg} \cup { Some(x) : x \in Layers([a |-> 1, b |-> 2, c |-> 2]) } }

InitMerge ==
    /\ entry = "clean_model_cfg"
    /\ pc = "clean_model_cfg"
    /\ args \in { [BaseArgs EXCEPT !.ag_args = g] : g \in MergeGlobals }
    /\ env \in MergeEnvs
    /\ softclass_hyperparameters = << >>
    /\ hp_level = << >>
    /\ next_type = 1
    /\ model_type \in {"GBM", PyNone}
    /\ model_cfgs_to_process \in { << v >> : v \in MergeVariants }
    /\ default_priorities = EmptyDict
    /\ invalid_name_set = {}
    /\ model_cfg_priority_dict = EmptyDict
    /\ model_cfg_priority_list = << >>
    /\ next_model = 1
    /\ models = << >>
    /\ model_args_fit = EmptyDict
    /\ returned = NoneArg
    /\ error = NoError

SpecMerge == InitMerge /\ [][CleanModelCfgCall]_vars

\* the three layers of a direct call, as dicts
MergeOwn == OwnAgArgs(Head(model_cfgs_to_process))

MergeGlobal == OrEmpty(args.ag_args)

MergeDefault ==
    OrEmpty(env.default_ag_args[ClassOf(NamedType(model_type, Head(model_cfgs_to_process)))])

\* key k of the returned ag_args has the value the layers give it, first layer first
FromLayers(k) ==
    IF k \in DOMAIN MergeOwn
    THEN k \in DOMAIN returned[1][AG_ARGS] /\ returned[1][AG_ARGS][k] = MergeOwn[k]
    ELSE IF k \in DOMAIN MergeGlobal
    THEN k \in DOMAIN returned[1][AG_ARGS] /\ returned[1][AG_ARGS][k] = MergeGlobal[k]
    ELSE IF k \in DOMAIN MergeDefault
    THEN k \in DOMAIN returned[1][AG_ARGS] /\ returned[1][AG_ARGS][k] = MergeDefault[k]
    ELSE k \notin DOMAIN returned[1][AG_ARGS]

\* the keys of the layers and of the result
MergeKeys ==
    {"a", "b", "c"} \cup DOMAIN MergeOwn \cup DOMAIN MergeGlobal \cup DOMAIN MergeDefault
        \cup DOMAIN returned[1][AG_ARGS]

(* C3, as amended: for every ag-args key other than model_type,            *)
(* clean_model_cfg takes the value from the variant's own ag_args when it  *)
(* has the key, else from the caller's ag_args, else from the default      *)
(* ag_args of the model type, and a key in none of them is absent;         *)
(* model_type is the class of the variant's own model_type, else of the    *)
(* type key, whatever the caller's ag_args say.  Defaults {a:1,b:2},       *)
(* caller's {b:3,c:4} and own {c:5} give a=1, b=3, c=5.                    *)
C3_MergePrecedence ==
    (entry = "clean_model_cfg" /\ pc = "done") =>
        /\ \A k \in MergeKeys \ {"model_type"} : FromLayers(k)
        /\ returned[1][AG_ARGS]["model_type"]
               = ClassOf(NamedType(model_type, Head(model_cfgs_to_process)))
        /\ (/\ MergeOwn = [c |-> 5]
            /\ MergeGlobal = [b |-> 3, c |-> 4]
            /\ MergeDefault = [a |-> 1, b |-> 2])
           => Restrict(returned[1][AG_ARGS], {"a", "b", "c"}) = [a |-> 1, b |-> 3, c |-> 5]

\* the call of the example, returned
C3_Witness ==
    /\ entry = "clean_model_cfg"
    /\ pc = "done"
    /\ MergeOwn = [c |-> 5]
    /\ MergeGlobal = [b |-> 3, c |-> 4]
    /\ MergeDefault = [a |-> 1, b |-> 2]

(* C3 as stated, for every ag-args key: model_type too comes from the      *)
(* caller's ag_args when the variant's own ag_args do not have it (as the  *)
(* class the registry resolves it to).                                     *)
C3_Original ==
    (entry = "clean_model_cfg" /\ pc = "done") =>
        /\ \A k \in MergeKeys \ {"model_type"} : FromLayers(k)
        /\ ("model_type" \notin DOMAIN MergeOwn /\ "model_type" \in DOMAIN MergeGlobal)
           => returned[1][AG_ARGS]["model_type"] = ClassOf(MergeGlobal["model_type"])

----------------------------------------------------------------------------
(* The soft-classification entry point.  RF variants that differ in their  *)
(* criterion only, one with ag_args of its own, and a value that is no     *)
(* dict; RF beside GBM, and beside KNN, which the entry point leaves out;  *)
(* the caller's ag_args None, valid_base=False or an explicit name; levels *)
(* 1 and 2; built directly and wrapped in an ensemble.                     *)

\* the most variants a call is given by the soft-classification inputs
MaxSoftCfgs == 2

SoftPool ==
    { PyDict(EmptyDict),
      PyDict([criterion |-> "entropy"]),
      PyDict([criterion |-> "gini"]),
      PyDict([criterion |-> "gini", ag_args |-> [name |-> "Mine"]]),
      PyStr("GBMLarge") }

SoftHyperparameters ==
    LevelMappings(SoftPool, {<<"RF", "GBM">>, <<"GBM", "RF">>, <<"KNN", "RF">>}, MaxSoftCfgs)

SoftArgs ==
    { [BaseArgs EXCEPT !.level = l, !.ag_args = g, !.ensemble_kwargs = e]
        : l \in Levels,
          g \in {NoneArg, Some([valid_base |-> FALSE]), Some([name |-> "Mine"])},
          e \in {NoneArg, Some(EmptyDict)} }

InitSoftclass ==
    /\ entry = "get_preset_models_softclass"
    /\ pc = "softclass"
    /\ args \in SoftArgs
    /\ env = BaseEnv
    /\ softclass_hyperparameters \in SoftHyperparameters
    /\ InitLocals

NextSoftclass ==
    \/ SoftclassCall
    \/ Enter
    \/ ForModelType
    \/ ForModelCfg
    \/ SortByPriority
    \/ ForModel
    \/ Return
    \/ SoftclassReturn

SpecSoft == InitSoftclass /\ [][NextSoftclass]_vars

\* a variant dict with criterion and ag_args as the entry point sets them
Rewritten(d) ==
    [k \in DOMAIN d \cup {"criterion", AG_ARGS} |->
        IF k = "criterion" THEN "squared_error"
        ELSE IF k = AG_ARGS THEN [name_suffix |-> "MSE"]
        ELSE d[k]]

\* the RF variants the entry point was given, when they are a list of dicts
GivenRF ==
    IF "RF" \in KeySet(softclass_hyperparameters)
       /\ Lookup(softclass_hyperparameters, "RF").t = "list"
       /\ \A i \in 1..Len(Lookup(softclass_hyperparameters, "RF").v) :
             Lookup(softclass_hyperparameters, "RF").v[i].t = "dict"
    THEN Lookup(softclass_hyperparameters, "RF").v
    ELSE << >>

\* the RF variants handed to get_preset_models
HandedRF ==
    IF "RF" \in KeySet(args.hyperparameters)
    THEN Lookup(args.hyperparameters, "RF").v
    ELSE << >>

\* the places of the RF variants in hp_level
PlacesRF == { place \in Places(hp_level) : hp_level[place[1]].key = "RF" }

\* the variant at a place passes every test of the validity filter
PassesFilter(place) ==
    /\ ~HpoConflict(place)
    /\ StackerOk(place)
    /\ BaseOk(place)
    /\ ProblemTypeOk(place)

\* the name model_factory gave the model itself: the wrapped model's under an ensemble
OwnName(m) == IF IsNone(m.model_base_kwargs) THEN m.name ELSE m.model_base_kwargs[1].name

\* the hyperparameters of the model itself
OwnHyperparameters(m) ==
    IF IsNone(m.model_base_kwargs) THEN m.hyperparameters ELSE m.model_base_kwargs[1].hyperparameters

\* the class of the model itself
OwnClass(m) == IF IsNone(m.model_base_kwargs) THEN m.cls ELSE m.model_base

====
